---------------------------- MODULE Spec2Model ----------------------------
(***************************************************************************)
(* A model of the request handling in the WhatsApp multi-agent education   *)
(* assistant:                                                              *)
(*   - the orchestrator entrypoint `invoke` and                            *)
(*     `create_orchestrator_agent_runtime`                                 *)
(*     (src/src/agents/orchestrator_agentcore_runtime_gateway.py),         *)
(*   - the inbound SNS handler `lambda_handler`                            *)
(*     (src/src/lambda_sns_eum/lambda_sns_handler.py),                     *)
(*   - the persona checks of the domain tools (src/src/agents/*_agent.py), *)
(*   - the outbound send handler `lambda_handler` (src/lambda_function.py). *)
(* Texts that the code only compares (personas, queries, memory ids) are   *)
(* TLA+ strings; texts that the code edits character by character (phone   *)
(* numbers, session ids) are sequences of one-character strings.           *)
(***************************************************************************)
EXTENDS Integers, Sequences, FiniteSets, TLC

VARIABLES
    \* ---- orchestrator process (orchestrator_agentcore_runtime_gateway.py)
    memory_id_cache,      \* global memory_id_cache; None until first resolved
    memory_client_cache,  \* global memory_client_cache; TRUE once constructed
    env_MEMORY_ID,        \* os.getenv("MEMORY_ID") of the process; "" when unset
    opc,                  \* position of the current orchestration request
    caller,               \* who issued the current request: "direct" | "lambda"
    payload,              \* the request payload (a function on the keys present)
    session,              \* context.session_id of the request
    memory_id,            \* local memory_id of invoke
    mcp_tools,            \* local mcp_tools of create_orchestrator_agent_runtime
    outcome,              \* how invoke ended: [kind, error, result]
    olog,                 \* external calls made for the current request, in order
    \* ---- inbound handler (lambda_sns_handler.py)
    hpc,                  \* position of lambda_handler
    nrecords,             \* len(event['Records'])
    idx,                  \* index of the record being processed (1-based)
    record,               \* the record being processed
    user_persona,         \* value returned by get_user_persona_by_phone
    lookup,               \* what the directory lookup met: error/nomatch/noattr/found
    hsession_id,          \* session_id computed for the record
    hpayload,             \* payload built for invoke_agent_runtime
    hresult,              \* statusCode returned by lambda_handler (0 while running)
    hlog,                 \* external calls made by the handler for this record
    ninvoked,             \* orchestrator invocations made for this event so far
    herror,               \* the error text of the handler's result ("" if none)
    now,                  \* datetime.utcnow(), in half hours since Epoch
    \* ---- two inbound events observed for the session-id derivation
    obs,
    \* ---- one domain tool call (the *_agent.py tools)
    tpc,                  \* position of the tool call
    tool,                 \* the tool called
    tpersona,             \* its persona argument
    targ,                 \* its student_id / teacher_id argument (None if omitted)
    tret,                 \* what the tool call ended with
    tlog,                 \* the calls the tool made
    tdata,                \* the PaymentInfo records the tool's generator built
    \* ---- the outbound send handler (src/lambda_function.py)
    spc,                  \* position of the send handler
    sevent,               \* its event: a function on the keys present
    sresult,              \* what the invocation ended with
    slog                  \* the transport calls the invocation made

ovars == <<memory_id_cache, memory_client_cache, env_MEMORY_ID, opc, caller,
           payload, session, memory_id, mcp_tools, outcome, olog>>
hvars == <<hpc, nrecords, idx, record, user_persona, lookup, hsession_id,
           hpayload, hresult, hlog, ninvoked, herror>>
tvars == <<tpc, tool, tpersona, targ, tret, tlog, tdata>>
svars == <<spc, sevent, sresult, slog>>
vars == <<ovars, hvars, now, obs, tvars, svars>>

-----------------------------------------------------------------------------
(* Bounds of the model *)

\* records in one inbound event
MaxRecords == 2
\* delinquent-student records the model lets generate_admin_data build
MaxDelinquent == 3
\* half-hour steps the clock takes after Epoch
MaxTicks == 4
\* calls of the remote send tool the model makes in one invocation
MaxSends == 1
\* inbound events observed side by side for their session ids
MaxObserved == 2

-----------------------------------------------------------------------------
(* Python values *)

None == "<None>"

\* the keys of the orchestration payload whose values are character sequences
SeqKeys == {"user_id", "persona_id", "whatsapp_phone_number"}

\* dict.get(key): the value, or None
Get(d, k) == IF k \in DOMAIN d THEN d[k] ELSE None

\* `not d.get(key)`: the key is missing or its value is empty
Falsy(d, k) ==
    \/ k \notin DOMAIN d
    \/ (IF k \in SeqKeys THEN d[k] = <<>> ELSE d[k] = "")

Last(s) == s[Len(s)]

-----------------------------------------------------------------------------
(* The orchestrator: orchestrator_agentcore_runtime_gateway.py *)

\* the fixed local tools registered in base_tools
base_tools == <<"answer_student_questions", "answer_teacher_questions",
                "answer_payment_questions", "answer_admin_questions",
                "answer_general_questions", "retrieve">>

\* the name under which the gateway offers the outbound send handler
SendTool == "send_whatsapp_message"

\* what list_tools_sync can return: the gateway's catalog at that moment
RemoteCatalogs == {<<>>, <<SendTool>>}

\* the value the parameter store holds under /app/octank_edu_multi_agent/memory_id
SsmMemoryId == "mem-ssm"

valid_personas == {"student", "teacher", "administrator"}

Call(c, ok, arg) == [call |-> c, ok |-> ok, arg |-> arg]

NoOutcome == [kind |-> "none", error |-> "", result |-> None]
Raised(e) == [kind |-> "raised", error |-> e, result |-> None]
Returned(r) == [kind |-> "returned", error |-> "", result |-> r]

\* user_message = payload.get("inputText") or payload.get("prompt")
UserMessage(p) ==
    IF ~Falsy(p, "inputText") THEN p["inputText"] ELSE Get(p, "prompt")

\* a variant that leaves the user_id check out
ValidateRequest_NoUserId(p, s) ==
    IF UserMessage(p) \in {None, ""} THEN "missing_input"
    ELSE IF Falsy(p, "persona") THEN "missing_persona"
    ELSE IF s = <<>> THEN "missing_session_id"
    ELSE "ok"

\* the checks at the head of invoke, in the order the code makes them
ValidateRequest(p, s) ==
    IF UserMessage(p) \in {None, ""} THEN "missing_input"
    ELSE IF Falsy(p, "persona") THEN "missing_persona"
    ELSE IF Falsy(p, "user_id") THEN "missing_user_id"
    ELSE IF s = <<>> THEN "missing_session_id"
    ELSE "ok"

\* a variant that returns None instead of raising when every source fails
get_memory_id_ReturnsNone(p, cache, ssm, env) ==
    IF "memory_id" \in DOMAIN p
    THEN [ret |-> p["memory_id"], cache |-> cache, raised |-> FALSE,
          calls |-> <<>>]
    ELSE IF cache \notin {None, ""}
    THEN [ret |-> cache, cache |-> cache, raised |-> FALSE, calls |-> <<>>]
    ELSE IF ssm # None
    THEN [ret |-> ssm, cache |-> ssm, raised |-> FALSE,
          calls |-> <<Call("ssm_get_parameter", TRUE, <<>>)>>]
    ELSE [ret |-> IF env # "" THEN env ELSE None, cache |-> cache,
          raised |-> FALSE,
          calls |-> <<Call("ssm_get_parameter", FALSE, <<>>),
                      Call("getenv", env # "", <<>>)>>]

\* a variant that looks at the cache before the payload
get_memory_id_CacheFirst(p, cache, ssm, env) ==
    IF cache \notin {None, ""}
    THEN [ret |-> cache, cache |-> cache, raised |-> FALSE, calls |-> <<>>]
    ELSE IF "memory_id" \in DOMAIN p
    THEN [ret |-> p["memory_id"], cache |-> cache, raised |-> FALSE,
          calls |-> <<>>]
    ELSE IF ssm # None
    THEN [ret |-> ssm, cache |-> ssm, raised |-> FALSE,
          calls |-> <<Call("ssm_get_parameter", TRUE, <<>>)>>]
    ELSE IF env # ""
    THEN [ret |-> env, cache |-> env, raised |-> FALSE,
          calls |-> <<Call("ssm_get_parameter", FALSE, <<>>),
                      Call("getenv", TRUE, <<>>)>>]
    ELSE [ret |-> None, cache |-> cache, raised |-> TRUE,
          calls |-> <<Call("ssm_get_parameter", FALSE, <<>>),
                      Call("getenv", FALSE, <<>>)>>]

\* a variant that remembers the payload's memory_id
get_memory_id_CachesPayload(p, cache, ssm, env) ==
    IF "memory_id" \in DOMAIN p
    THEN [ret |-> p["memory_id"], cache |-> p["memory_id"], raised |-> FALSE,
          calls |-> <<>>]
    ELSE IF cache \notin {None, ""}
    THEN [ret |-> cache, cache |-> cache, raised |-> FALSE, calls |-> <<>>]
    ELSE IF ssm # None
    THEN [ret |-> ssm, cache |-> ssm, raised |-> FALSE,
          calls |-> <<Call("ssm_get_parameter", TRUE, <<>>)>>]
    ELSE IF env # ""
    THEN [ret |-> env, cache |-> env, raised |-> FALSE,
          calls |-> <<Call("ssm_get_parameter", FALSE, <<>>),
                      Call("getenv", TRUE, <<>>)>>]
    ELSE [ret |-> None, cache |-> cache, raised |-> TRUE,
          calls |-> <<Call("ssm_get_parameter", FALSE, <<>>),
                      Call("getenv", FALSE, <<>>)>>]

\* get_memory_id: ssm is the value get_memory_id_from_ssm returns, None when
\* it raises; env is os.getenv("MEMORY_ID"). The result carries the value
\* returned, the new memory_id_cache and the external calls made.
get_memory_id(p, cache, ssm, env) ==
    IF "memory_id" \in DOMAIN p
    THEN [ret |-> p["memory_id"], cache |-> cache, raised |-> FALSE,
          calls |-> <<>>]
    ELSE IF cache \notin {None, ""}
    THEN [ret |-> cache, cache |-> cache, raised |-> FALSE, calls |-> <<>>]
    ELSE IF ssm # None
    THEN [ret |-> ssm, cache |-> ssm, raised |-> FALSE,
          calls |-> <<Call("ssm_get_parameter", TRUE, <<>>)>>]
    ELSE IF env # ""
    THEN [ret |-> env, cache |-> env, raised |-> FALSE,
          calls |-> <<Call("ssm_get_parameter", FALSE, <<>>),
                      Call("getenv", TRUE, <<>>)>>]
    ELSE [ret |-> None, cache |-> cache, raised |-> TRUE,
          calls |-> <<Call("ssm_get_parameter", FALSE, <<>>),
                      Call("getenv", FALSE, <<>>)>>]

\* invoke, lines 534-558: a request arrives and its required fields are checked
invoke(p, s, who) ==
    /\ opc = "idle"
    /\ caller' = who
    /\ payload' = p
    /\ session' = s
    /\ memory_id' = None
    /\ mcp_tools' = <<>>
    /\ olog' = <<>>
    /\ IF ValidateRequest(p, s) = "ok"
       THEN opc' = "get_memory_id" /\ outcome' = NoOutcome
       ELSE opc' = "done" /\ outcome' = Raised(ValidateRequest(p, s))
    /\ UNCHANGED <<memory_id_cache, memory_client_cache, env_MEMORY_ID>>

\* invoke, lines 573-579: memory_id = get_memory_id(payload), re-raised on error
GetMemoryId ==
    /\ opc = "get_memory_id"
    /\ \E ssm \in {None, SsmMemoryId} :
         LET r == get_memory_id(payload, memory_id_cache, ssm, env_MEMORY_ID)
         IN  /\ memory_id_cache' = r.cache
             /\ memory_id' = r.ret
             /\ olog' = olog \o <<Call("get_memory_id", ~r.raised, <<>>)>>
                             \o r.calls
             /\ IF r.raised
                THEN opc' = "done" /\ outcome' = Raised("memory_id")
                ELSE opc' = "memory_bind" /\ outcome' = outcome
    /\ UNCHANGED <<memory_client_cache, env_MEMORY_ID, caller, payload,
                   session, mcp_tools>>
    /\ UNCHANGED <<hvars, now, obs, tvars, svars>>

\* invoke, lines 581-619: the memory client is created on first use, then the
\* memory configuration and the session manager; a constructor that raises
\* ends the request
MemoryBind ==
    /\ opc = "memory_bind"
    /\ memory_client_cache' = TRUE
    /\ \E ok \in BOOLEAN :
         /\ olog' = olog
                \o (IF memory_client_cache THEN <<>>
                    ELSE <<Call("MemoryClient", TRUE, <<>>)>>)
                \o <<Call("AgentCoreMemorySessionManager", ok, <<>>)>>
         /\ IF ok
            THEN opc' = "create_orchestrator" /\ outcome' = outcome
            ELSE opc' = "done" /\ outcome' = Raised("memory_config")
    /\ UNCHANGED <<memory_id_cache, env_MEMORY_ID, caller, payload, session,
                   memory_id, mcp_tools>>
    /\ UNCHANGED <<hvars, now, obs, tvars, svars>>

\* a variant without the persona check
PersonaAccepted_Any(persona) == TRUE

\* create_orchestrator_agent_runtime, lines 280-285: the persona check
PersonaAccepted(persona) == persona \in valid_personas

\* create_orchestrator_agent_runtime, lines 280-448: persona check, prompt,
\* base_tools and the contextualized query; a ValueError passes through the
\* except clause of invoke (lines 643-645), which re-raises it
CreateOrchestrator ==
    /\ opc = "create_orchestrator"
    /\ IF PersonaAccepted(payload["persona"])
       THEN opc' = "mcp_enter" /\ outcome' = outcome
       ELSE opc' = "done" /\ outcome' = Raised("invalid_persona")
    /\ UNCHANGED <<memory_id_cache, memory_client_cache, env_MEMORY_ID, caller,
                   payload, session, memory_id, mcp_tools, olog>>
    /\ UNCHANGED <<hvars, now, obs, tvars, svars>>

\* where control goes when entering `with mcp_client:` (line 451) raises: the
\* statement stands outside the try block, so the error leaves the function
AfterMcpEnterFailure == "done"

\* line 451: `with mcp_client:` opens the connection to the gateway
McpEnter ==
    /\ opc = "mcp_enter"
    /\ \E ok \in BOOLEAN :
         /\ olog' = olog \o <<Call("mcp_enter", ok, <<>>)>>
         /\ IF ok
            THEN opc' = "list_tools" /\ outcome' = outcome
            ELSE /\ opc' = AfterMcpEnterFailure
                 /\ outcome' = IF AfterMcpEnterFailure = "done"
                               THEN Raised("mcp_enter") ELSE outcome
    /\ UNCHANGED <<memory_id_cache, memory_client_cache, env_MEMORY_ID, caller,
                   payload, session, memory_id, mcp_tools>>
    /\ UNCHANGED <<hvars, now, obs, tvars, svars>>

\* a variant in which an error of list_tools_sync leaves the function
AfterListToolsFailure_NoFallback == "done"

\* where control goes when list_tools_sync raises: the except clause at
\* line 473 catches the error and builds the fallback agent
AfterListToolsFailure == "model_base"

\* lines 452-456: mcp_tools = mcp_client.list_tools_sync()
ListTools ==
    /\ opc = "list_tools"
    /\ \/ \E c \in RemoteCatalogs :
            /\ mcp_tools' = c
            /\ olog' = olog \o <<Call("list_tools_sync", TRUE, c)>>
            /\ opc' = "model_all"
            /\ outcome' = outcome
       \/ /\ mcp_tools' = mcp_tools
          /\ olog' = olog \o <<Call("list_tools_sync", FALSE, <<>>)>>
          /\ opc' = AfterListToolsFailure
          /\ outcome' = IF AfterListToolsFailure = "done"
                        THEN Raised("list_tools") ELSE outcome
    /\ UNCHANGED <<memory_id_cache, memory_client_cache, env_MEMORY_ID, caller,
                   payload, session, memory_id>>
    /\ UNCHANGED <<hvars, now, obs, tvars, svars>>

\* a variant in which the fallback agent keeps the fetched remote tools
ToolsFor_RemoteInFallback(pc, remote) == base_tools \o remote

\* the tools handed to Agent(...): all_tools at line 462, base_tools at line 481
ToolsFor(pc, remote) ==
    IF pc \in {"model_all", "in_model_all"} THEN base_tools \o remote
    ELSE base_tools

\* a variant in which every failed invocation is retried with the local tools
AfterModelFailure_RetryAgain(pc) == "model_base"

\* where control goes when a model invocation raises: the first one is inside
\* the try block (line 473 catches), the fallback one is not
AfterModelFailure(pc) == IF pc = "in_model_all" THEN "model_base" ELSE "done"

\* lines 459-468 and 478-487: Agent(...) is built and called with the query
StartModel ==
    /\ opc \in {"model_all", "model_base"}
    /\ olog' = olog \o <<Call("model_start", TRUE, ToolsFor(opc, mcp_tools))>>
    /\ opc' = IF opc = "model_all" THEN "in_model_all" ELSE "in_model_base"
    /\ UNCHANGED <<memory_id_cache, memory_client_cache, env_MEMORY_ID, caller,
                   payload, session, memory_id, mcp_tools, outcome>>
    /\ UNCHANGED <<hvars, now, obs, tvars, svars>>

Elems(q) == {q[i] : i \in 1..Len(q)}

\* the part of the log from the last model_start on
SinceLastStart(log) ==
    LET starts == {i \in 1..Len(log) : log[i].call = "model_start"}
        from == CHOOSE i \in starts : \A j \in starts : j <= i
    IN  SubSeq(log, from, Len(log))

Count(log, c) == Cardinality({i \in 1..Len(log) : log[i].call = c})

\* the destination the model passes to the send tool: the phone number it
\* was given in the query context (line 442), if any
SendTarget(p) == IF "whatsapp_phone_number" \in DOMAIN p
                 THEN p["whatsapp_phone_number"] ELSE <<>>

\* during an invocation the model may call the remote send tool, when it has it
SendWhatsappMessage ==
    /\ opc \in {"in_model_all", "in_model_base"}
    /\ SendTool \in Elems(ToolsFor(opc, mcp_tools))
    /\ Count(SinceLastStart(olog), SendTool) < MaxSends
    /\ \E ok \in BOOLEAN :
         olog' = olog \o <<Call(SendTool, ok, SendTarget(payload))>>
    /\ UNCHANGED <<memory_id_cache, memory_client_cache, env_MEMORY_ID, opc,
                   caller, payload, session, memory_id, mcp_tools, outcome>>
    /\ UNCHANGED <<hvars, now, obs, tvars, svars>>

\* the model invocation returns a response or raises
EndModel ==
    /\ opc \in {"in_model_all", "in_model_base"}
    /\ \E ok \in BOOLEAN :
         /\ olog' = olog \o <<Call("model_end", ok, <<>>)>>
         /\ IF ok
            THEN opc' = "respond" /\ outcome' = outcome
            ELSE /\ opc' = AfterModelFailure(opc)
                 /\ outcome' = IF AfterModelFailure(opc) = "done"
                               THEN Raised("model") ELSE outcome
    /\ UNCHANGED <<memory_id_cache, memory_client_cache, env_MEMORY_ID, caller,
                   payload, session, memory_id, mcp_tools>>
    /\ UNCHANGED <<hvars, now, obs, tvars, svars>>

\* invoke, lines 633-641: the response dictionary
Respond ==
    /\ opc = "respond"
    /\ opc' = "done"
    /\ outcome' = Returned([result |-> "answer", session_id |-> session,
                            persona |-> payload["persona"]])
    /\ UNCHANGED <<memory_id_cache, memory_client_cache, env_MEMORY_ID, caller,
                   payload, session, memory_id, mcp_tools, olog>>
    /\ UNCHANGED <<hvars, now, obs, tvars, svars>>

-----------------------------------------------------------------------------
(* The inbound handler: lambda_sns_handler.py *)

\* the `from` values of the inbound messages: in the directory as student,
\* professor, administrator, without persona attribute, with another persona
\* value, unknown to the directory, a formatted spelling of the first, missing
Phones == {<<"5", "5", "1", "1">>,
           <<"+", "5", "5", "2", "2">>,
           <<"5", "5", "3", "3">>,
           <<"5", "5", "4", "4">>,
           <<"5", "5", "5", "5">>,
           <<"5", "5", "6", "6">>,
           <<"+", "5", "5", " ", "1", "1">>,
           <<>>}

\* the directory (the Cognito user pool) as list_users pages it: each user is
\* a function on the attribute names it has (`persona` is custom:persona)
Directory == <<
    [phone_number |-> <<"+", "5", "5", "1", "1">>, persona |-> "student"],
    [persona |-> "teacher"],
    [phone_number |-> <<"+", "5", "5", "2", "2">>, persona |-> "professor"],
    [phone_number |-> <<"+", "5", "5", "3", "3">>, persona |-> "administrator"],
    [phone_number |-> <<"+", "5", "5", "4", "4">>],
    [phone_number |-> <<"+", "5", "5", "5", "5">>, persona |-> "coordinator"] >>

\* the inbound records: what json.loads of the SNS message and of the webhook
\* entry yields (lines 136-169)
Messages ==
    {[kind |-> "message", type |-> "text", from |-> f, id |-> "wamid.A",
      body |-> b] : f \in Phones, b \in {"", "oi"}}
    \cup {[kind |-> "message", type |-> "image", from |-> f, id |-> "wamid.A",
           body |-> ""] : f \in Phones}

Skipped ==
    {[kind |-> k, type |-> "", from |-> <<>>, id |-> "", body |-> ""] :
        k \in {"nochanges", "status", "nomessages"}}

Malformed == [kind |-> "malformed", type |-> "", from |-> <<>>, id |-> "",
              body |-> ""]

NoRecord == [kind |-> "none", type |-> "", from |-> <<>>, id |-> "",
             body |-> ""]

Records == Messages \cup Skipped \cup {Malformed}

\* lines 76-77: the phone number with a leading '+'
WithPlus(phone_number) ==
    IF Len(phone_number) > 0 /\ phone_number[1] = "+" THEN phone_number
    ELSE <<"+">> \o phone_number

\* lines 85-107: the first user whose phone_number attribute equals the number
UserMatches(user, phone_number) ==
    /\ "phone_number" \in DOMAIN user
    /\ user["phone_number"] # <<>>
    /\ user["phone_number"] = phone_number

\* a variant that returns the persona attribute as it is, present or not
get_user_persona_by_phone_NoDefault(phone_number, dir_ok) ==
    LET number == WithPlus(phone_number)
        hits == {i \in 1..Len(Directory) : UserMatches(Directory[i], number)}
        first == CHOOSE i \in hits : \A j \in hits : i <= j
    IN  IF ~dir_ok THEN [persona |-> "student", lookup |-> "error"]
        ELSE IF hits = {} THEN [persona |-> None, lookup |-> "nomatch"]
        ELSE [persona |-> Get(Directory[first], "persona"), lookup |-> "found"]

\* get_user_persona_by_phone: dir_ok is FALSE when the directory raises
get_user_persona_by_phone(phone_number, dir_ok) ==
    LET number == WithPlus(phone_number)
        hits == {i \in 1..Len(Directory) : UserMatches(Directory[i], number)}
        first == CHOOSE i \in hits : \A j \in hits : i <= j
    IN  IF ~dir_ok THEN [persona |-> "student", lookup |-> "error"]
        ELSE IF hits = {} THEN [persona |-> "student", lookup |-> "nomatch"]
        ELSE IF "persona" \notin DOMAIN Directory[first]
                \/ Directory[first]["persona"] = ""
        THEN [persona |-> "student", lookup |-> "noattr"]
        ELSE [persona |-> Directory[first]["persona"], lookup |-> "found"]

\* a variant without the remapping
RemapPersona_Identity(persona) == persona

\* lines 199-201: "professor" is presented to the orchestrator as "teacher"
RemapPersona(persona) == IF persona = "professor" THEN "teacher" ELSE persona

\* lines 175-186: the text handed to the orchestrator
UserMessageOf(r) ==
    IF r.type = "text" THEN r.body
    ELSE IF r.type = "image" THEN "[Usuario enviou uma imagem]"
    ELSE "[Usuario enviou " \o r.type \o "]"

\* line 210: sender_phone.replace('+', '').replace('-', '').replace(' ', '')
IsKept(c) == c \notin {"+", "-", " "}
CleanPhone(sender_phone) == SelectSeq(sender_phone, IsKept)

\* line 216: hashlib.sha256(sender_phone.encode()).hexdigest()[:8], tabulated
\* for the phone strings of the model
Sha256Hex8(p) ==
    CASE p = <<"5", "5", "1", "1">> -> <<"8", "7", "9", "8", "b", "8", "4", "8">>
      [] p = <<"+", "5", "5", "2", "2">> -> <<"d", "4", "9", "c", "7", "a", "e", "7">>
      [] p = <<"5", "5", "3", "3">> -> <<"2", "9", "b", "7", "2", "1", "3", "2">>
      [] p = <<"5", "5", "4", "4">> -> <<"6", "3", "3", "4", "6", "1", "0", "e">>
      [] p = <<"5", "5", "5", "5">> -> <<"c", "1", "f", "3", "3", "0", "d", "0">>
      [] p = <<"5", "5", "6", "6">> -> <<"b", "e", "4", "1", "b", "7", "f", "1">>
      [] p = <<"+", "5", "5", " ", "1", "1">> -> <<"f", "b", "b", "7", "c", "a", "7", "9">>
      [] p = <<>> -> <<"e", "3", "b", "0", "c", "4", "4", "2">>

\* the instant the clock starts at: days since 1970-01-01 and the half hour
\* of the day (2025-12-31 22:00 UTC), so that the clock crosses an hour, a
\* day, a month and a year
Epoch == [day |-> 20453, half |-> 44]

Digit(d) == <<"0", "1", "2", "3", "4", "5", "6", "7", "8", "9">>[d + 1]

\* the decimal digits of n, zero-padded to the width
RECURSIVE Pad(_, _)
Pad(n, width) ==
    IF width = 0 THEN <<>> ELSE Pad(n \div 10, width - 1) \o <<Digit(n % 10)>>

\* the civil date of a day number (days since 1970-01-01), as the proleptic
\* Gregorian calendar of datetime gives it
CivilFromDays(days) ==
    LET z == days + 719468
        era == z \div 146097
        doe == z - era * 146097
        yoe == (doe - doe \div 1460 + doe \div 36524 - doe \div 146096) \div 365
        doy == doe - (365 * yoe + yoe \div 4 - yoe \div 100)
        mp == (5 * doy + 2) \div 153
        d == doy - (153 * mp + 2) \div 5 + 1
        m == IF mp < 10 THEN mp + 3 ELSE mp - 9
        y == yoe + era * 400 + (IF m <= 2 THEN 1 ELSE 0)
    IN  [year |-> y, month |-> m, day |-> d]

\* datetime.utcnow() at clock value t (half hours since Epoch)
UtcNow(t) ==
    LET halves == Epoch.half + t
        date == CivilFromDays(Epoch.day + halves \div 48)
    IN  [year |-> date.year, month |-> date.month, day |-> date.day,
         hour |-> (halves % 48) \div 2, minute |-> 30 * (halves % 2)]

\* the UTC hour a clock value lies in, counted from the day of Epoch
HourBucket(t) == (Epoch.half + t) \div 2

\* a variant that formats the timestamp by minute
HourTimestamp_ByMinute(dt) ==
    Pad(dt.year, 4) \o <<"-">> \o Pad(dt.month, 2) \o <<"-">>
        \o Pad(dt.day, 2) \o <<"-">> \o Pad(dt.hour, 2) \o <<"-">>
        \o Pad(dt.minute, 2)

\* a variant that formats the timestamp by day
HourTimestamp_ByDay(dt) ==
    Pad(dt.year, 4) \o <<"-">> \o Pad(dt.month, 2) \o <<"-">>
        \o Pad(dt.day, 2)

\* line 219: strftime('%Y-%m-%d-%H')
HourTimestamp(dt) ==
    Pad(dt.year, 4) \o <<"-">> \o Pad(dt.month, 2) \o <<"-">>
        \o Pad(dt.day, 2) \o <<"-">> \o Pad(dt.hour, 2)

WhatsappPrefix == <<"w", "h", "a", "t", "s", "a", "p", "p", "-">>

\* a variant that names the session by the hour alone
SessionId_HourOnly(sender_phone, t) ==
    WhatsappPrefix \o HourTimestamp(UtcNow(t))

\* lines 210-221: the session id of an inbound message
SessionId(sender_phone, t) ==
    WhatsappPrefix \o CleanPhone(sender_phone) \o <<"-">>
        \o HourTimestamp(UtcNow(t)) \o <<"-">> \o Sha256Hex8(sender_phone)

\* lines 224-231: the payload for the orchestrator
BuildPayload(r, persona) ==
    [inputText |-> UserMessageOf(r),
     persona |-> persona,
     user_id |-> CleanPhone(r.from),
     persona_id |-> CleanPhone(r.from),
     whatsapp_phone_number |-> r.from]

\* the request-scoped state of the orchestrator once its caller has the result
OrchestratorIdle ==
    /\ opc' = "idle"
    /\ caller' = "none"
    /\ payload' = <<>>
    /\ session' = <<>>
    /\ memory_id' = None
    /\ mcp_tools' = <<>>
    /\ outcome' = NoOutcome
    /\ olog' = <<>>

\* a variant in which the error of a record is caught inside the loop
AfterRecordFailure_Continue == "next_record"

\* where control goes when a step of the loop body raises: the try block
\* (line 133) holds the whole loop, so its except clause (279-290) returns
AfterRecordFailure == "done"

\* the handler starts on an event of n records; with_records is FALSE for an
\* event without the key 'Records' (line 131 prints 0, line 135 raises KeyError)
EnterHandler(n, with_records) ==
    /\ hpc \in {"idle", "done"}
    /\ nrecords' = n
    /\ hpc' = IF with_records THEN "next_record" ELSE "done"
    /\ hresult' = IF with_records THEN 0 ELSE 500
    /\ herror' = IF with_records THEN "" ELSE "'Records'"
    /\ idx' = 0
    /\ record' = NoRecord
    /\ user_persona' = None
    /\ lookup' = "none"
    /\ hsession_id' = <<>>
    /\ hpayload' = <<>>
    /\ hlog' = <<>>
    /\ ninvoked' = 0

\* lambda_handler is entered with an event of n records, or with an event
\* that has no 'Records'
LambdaHandler ==
    /\ \/ \E n \in 0..MaxRecords : EnterHandler(n, TRUE)
       \/ EnterHandler(0, FALSE)
    /\ UNCHANGED <<ovars, now, obs, tvars, svars>>

\* line 271: every record has been processed or skipped
ReturnOk ==
    /\ hpc = "next_record"
    /\ idx = nrecords
    /\ hpc' = "done"
    /\ hresult' = 200
    /\ herror' = ""
    /\ UNCHANGED <<nrecords, idx, record, user_persona, lookup, hsession_id,
                   hpayload, hlog, ninvoked, ovars, now, obs, tvars, svars>>

\* a variant without the check for a status update
Triage_StatusNotSkipped(r) ==
    IF r.kind = "malformed" THEN "fail"
    ELSE IF r.kind \in {"nochanges", "nomessages"} THEN "skip"
    ELSE "process"

\* what lines 136-169 do with a record: fail, skip it, or take its message
Triage(r) ==
    IF r.kind = "malformed" THEN "fail"
    ELSE IF r.kind \in {"nochanges", "status", "nomessages"} THEN "skip"
    ELSE "process"

\* a variant that goes from the message straight to the persona lookup
AfterTriage_NoReceipt(t) ==
    CASE t = "fail" -> AfterRecordFailure
      [] t = "skip" -> "next_record"
      [] OTHER -> "resolve_persona"

\* where the loop body goes from the triage: the except clause (line 279),
\* `continue` (lines 150, 157, 163), or markAsRead (line 172)
AfterTriage(t) ==
    CASE t = "fail" -> AfterRecordFailure
      [] t = "skip" -> "next_record"
      [] OTHER -> "mark_as_read"

\* lines 135-169: the next record, one of the records rs, is decoded
NextRecordFrom(rs) ==
    /\ hpc = "next_record"
    /\ idx < nrecords
    /\ idx' = idx + 1
    /\ \E r \in rs :
         /\ record' = r
         /\ hpc' = AfterTriage(Triage(r))
         /\ hresult' = IF Triage(r) = "fail" THEN 500 ELSE hresult
         /\ herror' = IF Triage(r) = "fail" THEN "JSONDecodeError" ELSE herror
    /\ user_persona' = None
    /\ lookup' = "none"
    /\ hsession_id' = <<>>
    /\ hpayload' = <<>>
    /\ hlog' = <<>>
    /\ UNCHANGED <<nrecords, ninvoked>>

NextRecord ==
    /\ NextRecordFrom(Records)
    /\ UNCHANGED <<ovars, now, obs, tvars, svars>>

\* a variant in which an error of the receipt reaches lambda_handler
AfterMarkAsReadFailure_Propagates == "done"

\* where control goes when the transport call of markAsRead raises: the
\* except clause at line 58 returns None and lambda_handler goes on
AfterMarkAsReadFailure == "resolve_persona"

\* line 172 and markAsRead: the read receipt (a send_whatsapp_message call of
\* the transport with status "read")
MarkAsRead ==
    /\ hpc = "mark_as_read"
    /\ \E ok \in BOOLEAN :
         /\ hlog' = hlog \o <<Call("markAsRead", ok, <<record.id>>)>>
         /\ hpc' = IF ok THEN "resolve_persona" ELSE AfterMarkAsReadFailure
         /\ hresult' = IF ~ok /\ AfterMarkAsReadFailure = "done"
                        THEN 500 ELSE hresult
         /\ herror' = IF ~ok /\ AfterMarkAsReadFailure = "done"
                       THEN "markAsRead" ELSE herror
    /\ UNCHANGED <<nrecords, idx, record, user_persona, lookup, hsession_id,
                   hpayload, ninvoked, ovars, now, obs, tvars, svars>>

\* lines 174-231: the persona lookup, the remapping, the session id and the
\* payload
ResolvePersona ==
    /\ hpc = "resolve_persona"
    /\ \E dir_ok \in BOOLEAN :
         LET found == get_user_persona_by_phone(record.from, dir_ok)
         IN  /\ user_persona' = found.persona
             /\ lookup' = found.lookup
             /\ hlog' = hlog \o <<Call("list_users", dir_ok, record.from)>>
             /\ hpayload' = BuildPayload(record, RemapPersona(found.persona))
    /\ hsession_id' = SessionId(record.from, now)
    /\ hpc' = "invoke_runtime"
    /\ UNCHANGED <<nrecords, idx, record, hresult, ninvoked, herror, ovars, now,
                   obs, tvars, svars>>

\* lines 238-242: invoke_agent_runtime; the runtime service either refuses
\* the call or runs the entrypoint with the payload and the session id
InvokeAgentRuntime ==
    /\ hpc = "invoke_runtime"
    /\ \/ /\ hlog' = hlog \o <<Call("invoke_agent_runtime", FALSE, hsession_id)>>
          /\ hpc' = AfterRecordFailure
          /\ hresult' = 500
          /\ herror' = "invoke_agent_runtime"
          /\ UNCHANGED ovars
       \/ /\ hlog' = hlog \o <<Call("invoke_agent_runtime", TRUE, hsession_id)>>
          /\ hpc' = "await_runtime"
          /\ hresult' = hresult
          /\ herror' = herror
          /\ invoke(hpayload, hsession_id, "lambda")
    /\ ninvoked' = ninvoked + 1
    /\ UNCHANGED <<nrecords, idx, record, user_persona, lookup, hsession_id,
                   hpayload, now, obs, tvars, svars>>

\* a variant that does not wait for the entrypoint to end
ResponseDrained_NoWait == opc # "idle"

\* lines 238-266: invoke_agent_runtime and the loops over the response body
\* return when the entrypoint has ended
ResponseDrained == opc = "done"

\* lines 244-270: the entrypoint has ended; an error of the entrypoint is an
\* error of invoke_agent_runtime; a result is drained and decoded, and decoding
\* it (line.decode, chunk.decode, json.loads) may raise
ProcessResponse ==
    /\ hpc = "await_runtime"
    /\ ResponseDrained
    /\ \E decoded \in BOOLEAN :
         IF outcome.kind = "raised" \/ ~decoded
         THEN /\ hpc' = AfterRecordFailure
              /\ hresult' = 500
              /\ herror' = IF outcome.kind = "raised" THEN "entrypoint"
                            ELSE "decode"
         ELSE hpc' = "next_record" /\ hresult' = hresult /\ herror' = herror
    /\ OrchestratorIdle
    /\ UNCHANGED <<memory_id_cache, memory_client_cache, env_MEMORY_ID,
                   nrecords, idx, record, user_persona, lookup, hsession_id,
                   hpayload, hlog, ninvoked, now, obs, tvars, svars>>

\* time passes; the clock is read only at line 219
Tick ==
    /\ now < MaxTicks
    /\ hpc # "await_runtime"
    /\ now' = now + 1
    /\ UNCHANGED <<ovars, hvars, obs, tvars, svars>>

-----------------------------------------------------------------------------
(* The inbound handler with the orchestrator behind it *)

InitOrchestrator ==
    /\ memory_id_cache = None
    /\ memory_client_cache = FALSE
    /\ env_MEMORY_ID \in {"", "mem-env"}
    /\ opc = "idle"
    /\ caller = "none"
    /\ payload = <<>>
    /\ session = <<>>
    /\ memory_id = None
    /\ mcp_tools = <<>>
    /\ outcome = NoOutcome
    /\ olog = <<>>

InitHandler ==
    /\ hpc = "idle"
    /\ nrecords = 0
    /\ idx = 0
    /\ record = NoRecord
    /\ user_persona = None
    /\ lookup = "none"
    /\ hsession_id = <<>>
    /\ hpayload = <<>>
    /\ hresult = 0
    /\ hlog = <<>>
    /\ ninvoked = 0
    /\ herror = ""
    /\ now = 0

InitTool ==
    /\ tpc = "idle"
    /\ tool = ""
    /\ tpersona = ""
    /\ targ = None
    /\ tret = NoOutcome
    /\ tlog = <<>>
    /\ tdata = <<>>

NoSendResult == [kind |-> "none", statusCode |-> 0, error |-> "",
                 message_id |-> "", recipient |-> <<>>]

InitSend ==
    /\ spc = "idle"
    /\ sevent = [form |-> "dict", body |-> <<>>, client_context |-> "none"]
    /\ sresult = NoSendResult
    /\ slog = <<>>

Init ==
    /\ InitOrchestrator
    /\ InitHandler
    /\ InitTool
    /\ InitSend
    /\ obs = <<>>

Next ==
    \/ LambdaHandler
    \/ NextRecord
    \/ MarkAsRead
    \/ ResolvePersona
    \/ InvokeAgentRuntime
    \/ GetMemoryId
    \/ MemoryBind
    \/ CreateOrchestrator
    \/ McpEnter
    \/ ListTools
    \/ StartModel
    \/ SendWhatsappMessage
    \/ EndModel
    \/ Respond
    \/ ProcessResponse
    \/ ReturnOk
    \/ Tick

Spec == Init /\ [][Next]_vars

-----------------------------------------------------------------------------
(* The transport delivers one message event twice (SNS delivers at least once) *)

\* the message records of the redelivered event
RedeliveredRecords ==
    {r \in Messages : /\ r.type = "text"
                      /\ r.body = "oi"
                      /\ r.from \in {<<"5", "5", "1", "1">>,
                                     <<"5", "5", "3", "3">>}}

\* what an ended delivery did, as seen from outside the handler
DeliverySummary ==
    [session_id |-> hsession_id, payload |-> hpayload,
     user_persona |-> user_persona, lookup |-> lookup, invoked |-> ninvoked,
     statusCode |-> hresult]

\* the first delivery of an event of one message record
FirstDelivery ==
    /\ hpc = "idle"
    /\ obs = <<>>
    /\ \E r \in RedeliveredRecords : obs' = <<[event |-> r, at |-> now]>>
    /\ EnterHandler(1, TRUE)
    /\ UNCHANGED <<ovars, now, tvars, svars>>

\* the record loop of a delivery takes the record of the event
NextRecordOfEvent ==
    /\ obs # <<>>
    /\ NextRecordFrom({obs[1].event})
    /\ UNCHANGED <<ovars, now, obs, tvars, svars>>

\* the first delivery has ended and the same event is delivered again; the
\* handler starts as on any event, and the module state of the orchestrator
\* is what the first delivery left
Redeliver ==
    /\ hpc = "done"
    /\ Len(obs) = 1
    /\ obs' = Append(obs, DeliverySummary)
    /\ EnterHandler(1, TRUE)
    /\ UNCHANGED <<ovars, now, tvars, svars>>

NextRedelivery ==
    \/ FirstDelivery
    \/ Redeliver
    \/ NextRecordOfEvent
    \/ MarkAsRead
    \/ ResolvePersona
    \/ InvokeAgentRuntime
    \/ GetMemoryId
    \/ MemoryBind
    \/ CreateOrchestrator
    \/ McpEnter
    \/ ListTools
    \/ StartModel
    \/ SendWhatsappMessage
    \/ EndModel
    \/ Respond
    \/ ProcessResponse
    \/ ReturnOk
    \/ Tick

SpecRedelivery == Init /\ [][NextRedelivery]_vars

\* the second delivery has ended, in the UTC hour in which the first began
RedeliveredInHour ==
    /\ Len(obs) = 2
    /\ hpc = "done"
    /\ HourBucket(obs[1].at) = HourBucket(now)

\* C21 as stated: the two deliveries of one message event within one UTC hour
\* each call invoke_agent_runtime, with the same session id and the same
\* payload.
C21_RedeliveryRepeatsInvocation ==
    RedeliveredInHour
    => /\ obs[2].invoked = 1
       /\ ninvoked = 1
       /\ hsession_id = obs[2].session_id
       /\ hpayload = obs[2].payload

\* C21, amended: the two deliveries of one message event within one UTC hour
\* each call invoke_agent_runtime, whatever the first delivery left behind
\* and however it ended, with the same session id; the payloads are the same
\* when the directory lookup gave the same persona in both deliveries, and
\* differ in nothing but the persona otherwise.
C21_RedeliveryInvokesAgain ==
    RedeliveredInHour
    => /\ obs[2].invoked = 1
       /\ ninvoked = 1
       /\ hsession_id = obs[2].session_id
       /\ user_persona = obs[2].user_persona => hpayload = obs[2].payload
       /\ \A k \in DOMAIN hpayload \ {"persona"} :
             hpayload[k] = obs[2].payload[k]
       /\ DOMAIN hpayload = DOMAIN obs[2].payload

C21_Witness ==
    /\ RedeliveredInHour
    /\ obs[1].event.from = <<"5", "5", "3", "3">>
    /\ obs[2].statusCode = 200
    /\ hresult = 200
    /\ ninvoked = 1
    /\ hpayload = obs[2].payload
    /\ hpayload["persona"] = "administrator"
    /\ memory_id_cache # None

-----------------------------------------------------------------------------
(* The orchestrator invoked directly (tests/invoke_agent.py), with any payload *)

PayloadKeys == {"inputText", "prompt", "persona", "user_id", "memory_id"}

\* a payload from one choice per key; an empty choice leaves the key out
MkPayload(it, pr, pe, uid, mid) ==
    LET choice(k) == CASE k = "inputText" -> it
                       [] k = "prompt" -> pr
                       [] k = "persona" -> pe
                       [] k = "user_id" -> uid
                       [] k = "memory_id" -> mid
    IN  [k \in {x \in PayloadKeys : choice(x) # {}} |->
            CHOOSE v \in choice(k) : TRUE]

DirectPayloads ==
    {MkPayload(it, pr, pe, uid, mid) :
        it \in {{}, {""}, {"q"}},
        pr \in {{}, {""}, {"p"}},
        pe \in {{}, {""}, {"student"}, {"teacher"}, {"administrator"},
                {"professor"}},
        uid \in {{}, {<<>>}, {<<"u", "1">>}},
        mid \in {{}, {""}, {"mem-payload"}}}

DirectSessions == {<<>>, <<"s", "1">>}

InvokeDirect ==
    /\ \E p \in DirectPayloads, s \in DirectSessions : invoke(p, s, "direct")
    /\ UNCHANGED <<hvars, now, obs, tvars, svars>>

\* the runtime hands the result or the error of invoke to the client
ReturnToCaller ==
    /\ opc = "done"
    /\ caller = "direct"
    /\ OrchestratorIdle
    /\ UNCHANGED <<memory_id_cache, memory_client_cache, env_MEMORY_ID>>
    /\ UNCHANGED <<hvars, now, obs, tvars, svars>>

NextOrch ==
    \/ InvokeDirect
    \/ ReturnToCaller
    \/ GetMemoryId
    \/ MemoryBind
    \/ CreateOrchestrator
    \/ McpEnter
    \/ ListTools
    \/ StartModel
    \/ SendWhatsappMessage
    \/ EndModel
    \/ Respond

SpecOrch == Init /\ [][NextOrch]_vars

-----------------------------------------------------------------------------
(* Properties of the orchestrator, checked under SpecOrch *)

Made(log, c) == \E i \in 1..Len(log) : log[i] = c

ModelStarts(log) == {i \in 1..Len(log) : log[i].call = "model_start"}

\* C1: when list_tools_sync raised, the request makes exactly one model
\* invocation, with the fixed local tools only, and if that invocation
\* succeeded invoke returns its response and does not raise.
C1_FetchFailureFallsBackOnce ==
    (opc = "done" /\ Made(olog, Call("list_tools_sync", FALSE, <<>>)))
    => /\ Cardinality(ModelStarts(olog)) = 1
       /\ \A i \in ModelStarts(olog) : olog[i].arg = base_tools
       /\ Made(olog, Call("model_end", TRUE, <<>>))
            => /\ outcome.kind = "returned"
               /\ outcome.result.result = "answer"
       /\ Made(olog, Call("model_end", FALSE, <<>>))
            => outcome.kind = "raised"

C1_Witness ==
    /\ opc = "done"
    /\ Made(olog, Call("list_tools_sync", FALSE, <<>>))
    /\ Made(olog, Call("model_end", TRUE, <<>>))
    /\ outcome.kind = "returned"

\* C2: when the remote catalog was unavailable for a request (the connection
\* to the gateway could not be opened, or listing the tools raised), the
\* request has been served by a model invocation with the local tools alone.
C2_UnavailableCatalogStillServed ==
    (/\ opc = "done"
     /\ \/ Made(olog, Call("mcp_enter", FALSE, <<>>))
        \/ Made(olog, Call("list_tools_sync", FALSE, <<>>)))
    => Made(olog, Call("model_start", TRUE, base_tools))

\* an event that sends control to the local-only retry
IsFailure(e) == e.ok = FALSE /\ e.call \in {"list_tools_sync", "model_end"}

\* C3: a request invokes the model at most twice; an invocation is either
\* the first one, right after the catalog was listed, with the local and the
\* listed tools, or the single local-only retry, right after the catalog
\* fetch or the first invocation failed; a failure of the retry ends the
\* request with the error raised.
C3_SingleLevelFallback ==
    /\ Cardinality(ModelStarts(olog)) <= 2
    /\ \A i \in ModelStarts(olog) :
         /\ i > 1
         /\ \/ /\ olog[i - 1].call = "list_tools_sync"
               /\ olog[i - 1].ok
               /\ olog[i].arg = base_tools \o olog[i - 1].arg
               /\ \A j \in ModelStarts(olog) : i <= j
            \/ /\ IsFailure(olog[i - 1])
               /\ olog[i].arg = base_tools
               /\ \A j \in ModelStarts(olog) : j <= i
    /\ \A i \in 1..Len(olog) :
         (/\ olog[i] = Call("model_end", FALSE, <<>>)
          /\ \E j \in ModelStarts(olog) : j < i /\ IsFailure(olog[j - 1]))
         => /\ i = Len(olog)
            /\ opc = "done"
            /\ outcome = Raised("model")

C3_Witness ==
    /\ opc = "done"
    /\ Cardinality(ModelStarts(olog)) = 2
    /\ Last(olog) = Call("model_end", FALSE, <<>>)
    /\ outcome.kind = "raised"

\* C4: a request whose payload has neither a non-empty inputText nor a
\* non-empty prompt, or no non-empty persona, or no non-empty user_id, has
\* ended with an error and made no external call at all (no memory lookup,
\* no gateway fetch, no model invocation).
C4_MissingFieldFailsFirst ==
    (/\ opc # "idle"
     /\ \/ Falsy(payload, "inputText") /\ Falsy(payload, "prompt")
        \/ Falsy(payload, "persona")
        \/ Falsy(payload, "user_id"))
    => /\ opc = "done"
       /\ outcome.kind = "raised"
       /\ olog = <<>>

C4_Witness ==
    /\ opc = "done"
    /\ ~Falsy(payload, "inputText")
    /\ ~Falsy(payload, "persona")
    /\ Falsy(payload, "user_id")
    /\ outcome = Raised("missing_user_id")

\* C5: when the payload has no memory_id, the cache is empty, the parameter
\* store lookup failed and the environment variable is unset, the request
\* has ended with an error, without any model invocation and without any
\* outbound message.
C5_UnresolvedMemoryIdFails ==
    (/\ "memory_id" \notin DOMAIN payload
     /\ memory_id_cache = None
     /\ Made(olog, Call("ssm_get_parameter", FALSE, <<>>))
     /\ env_MEMORY_ID = "")
    => /\ opc = "done"
       /\ outcome.kind = "raised"
       /\ ModelStarts(olog) = {}
       /\ \A i \in 1..Len(olog) : olog[i].call # SendTool

C5_Witness ==
    /\ opc = "done"
    /\ "memory_id" \notin DOMAIN payload
    /\ Made(olog, Call("ssm_get_parameter", FALSE, <<>>))
    /\ env_MEMORY_ID = ""
    /\ outcome = Raised("memory_id")

\* C16: a request that has ended with an error raised has sent no outbound
\* message: its log holds no successful call of the send tool.
C16_NoMessageWhenRaised ==
    (opc = "done" /\ outcome.kind = "raised")
    => \A i \in 1..Len(olog) : ~(olog[i].call = SendTool /\ olog[i].ok)

\* the state of section 4.5 the request is in: persona_resolved once the
\* persona check of create_orchestrator_agent_runtime has passed,
\* memory_bound once the session manager exists
StageOf(pc, oc) ==
    CASE pc = "idle" -> "none"
      [] pc \in {"get_memory_id", "memory_bind"} -> "received"
      [] pc = "create_orchestrator" -> "memory_bound"
      [] pc \in {"mcp_enter", "list_tools"} -> "persona_resolved"
      [] pc \in {"model_all", "model_base"} -> "tools_assembled"
      [] pc \in {"in_model_all", "in_model_base"} -> "model_invoked"
      [] pc = "respond" -> "responded"
      [] pc = "done" -> IF oc.kind = "returned" THEN "responded" ELSE "failed"

StageRank(st) ==
    CASE st = "received" -> 1
      [] st = "persona_resolved" -> 2
      [] st = "memory_bound" -> 3
      [] st = "tools_assembled" -> 4
      [] st = "model_invoked" -> 5
      [] OTHER -> 0

NewCalls == SubSeq(olog', Len(olog) + 1, Len(olog'))

\* C20: the step that resolves the memory id takes the payload's memory_id
\* when the key is there, whatever the cache holds; otherwise the cached
\* value, without a parameter store call; otherwise the parameter store's
\* value; the environment variable only after the parameter store lookup
\* failed; and it raises only when the payload has no key, the cache is
\* empty, the lookup failed and the variable is unset.
C20_MemoryIdPriority ==
    [][(opc = "get_memory_id" /\ opc' # "get_memory_id")
       => LET ssm_ok == Made(NewCalls, Call("ssm_get_parameter", TRUE, <<>>))
              ssm_failed == Made(NewCalls, Call("ssm_get_parameter", FALSE, <<>>))
              env_read == \E i \in 1..Len(NewCalls) : NewCalls[i].call = "getenv"
              raised == outcome'.kind = "raised"
          IN  /\ "memory_id" \in DOMAIN payload
                 => /\ memory_id' = payload["memory_id"]
                    /\ ~ssm_ok /\ ~ssm_failed /\ ~env_read /\ ~raised
                    /\ memory_id_cache' = memory_id_cache
              /\ ("memory_id" \notin DOMAIN payload
                  /\ memory_id_cache \notin {None, ""})
                 => /\ memory_id' = memory_id_cache
                    /\ ~ssm_ok /\ ~ssm_failed /\ ~env_read /\ ~raised
                    /\ memory_id_cache' = memory_id_cache
              /\ ("memory_id" \notin DOMAIN payload
                  /\ memory_id_cache \in {None, ""})
                 => /\ ssm_ok \/ ssm_failed
                    /\ ssm_ok => /\ memory_id' = SsmMemoryId
                                 /\ memory_id_cache' = SsmMemoryId
                                 /\ ~env_read /\ ~raised
                    /\ ssm_failed
                       => /\ env_read
                          /\ env_MEMORY_ID # ""
                             => /\ memory_id' = env_MEMORY_ID
                                /\ memory_id_cache' = env_MEMORY_ID
                                /\ ~raised
                          /\ env_MEMORY_ID = "" => raised
              /\ env_read => ssm_failed
              /\ raised => /\ "memory_id" \notin DOMAIN payload
                           /\ memory_id_cache \in {None, ""}
                           /\ ssm_failed
                           /\ env_MEMORY_ID = ""
              /\ ~raised => opc' = "memory_bind"]_vars

C20_Witness ==
    /\ opc = "memory_bind"
    /\ "memory_id" \in DOMAIN payload
    /\ memory_id_cache = SsmMemoryId
    /\ memory_id = "mem-payload"

\* the successful catalog fetches of the request, by position in its log
Fetches(log) == {i \in 1..Len(log) : log[i].call = "list_tools_sync"
                                      /\ log[i].ok}

\* C22: the tool catalog is computed anew in every request: no remote tool is
\* held before the request's own fetch; every model invocation was preceded
\* by a catalog fetch of the same request; every model invocation is offered
\* the six local tools first; the first invocation after a successful fetch
\* is offered exactly the fetched remote tools besides them, and every other
\* invocation (the fallback) none.
C22_CatalogPerRequest ==
    /\ Len(base_tools) = 6
    /\ opc \in {"get_memory_id", "memory_bind", "create_orchestrator",
                "mcp_enter", "list_tools"} => mcp_tools = <<>>
    /\ Count(olog, "list_tools_sync") <= 1
    /\ \A i \in ModelStarts(olog) :
          /\ \E j \in 1..(i - 1) : olog[j].call = "list_tools_sync"
          /\ SubSeq(olog[i].arg, 1, 6) = base_tools
          /\ IF i = CHOOSE k \in ModelStarts(olog) :
                        \A m \in ModelStarts(olog) : k <= m
                THEN \/ /\ Fetches(olog) = {}
                        /\ olog[i].arg = base_tools
                     \/ \E j \in Fetches(olog) :
                           /\ j < i
                           /\ olog[i].arg = base_tools \o olog[j].arg
                ELSE olog[i].arg = base_tools

C22_Witness ==
    /\ opc = "in_model_base"
    /\ mcp_tools = <<SendTool>>
    /\ Cardinality(ModelStarts(olog)) = 2
    /\ Last(olog) = Call("model_start", TRUE, base_tools)

\* C24: a request whose persona is none of student, teacher, administrator
\* never reaches the gateway or a model: it ends raised, with the persona
\* error once the memory session was built, and no fallback is tried.
C24_InvalidPersonaRaisesEarly ==
    (/\ opc # "idle"
     /\ ValidateRequest(payload, session) = "ok"
     /\ payload["persona"] \notin valid_personas)
    => /\ ~ \E i \in 1..Len(olog) :
              olog[i].call \in {"mcp_enter", "list_tools_sync", "model_start",
                                "model_end", SendTool}
       /\ opc \in {"get_memory_id", "memory_bind", "create_orchestrator",
                   "done"}
       /\ opc = "done" => outcome.kind = "raised"
       /\ (opc = "done"
           /\ Made(olog, Call("AgentCoreMemorySessionManager", TRUE, <<>>)))
          => outcome = Raised("invalid_persona")

C24_Witness ==
    /\ opc = "done"
    /\ caller = "direct"
    /\ Get(payload, "persona") = "professor"
    /\ outcome = Raised("invalid_persona")

\* C27: memory_id_cache changes only in the step that resolves the memory id,
\* only from empty, only to the parameter store's value or the environment
\* variable's, only when the payload has no memory_id, and not when the
\* resolution raises.
C27_CacheWrittenOnceFromStoreOrEnv ==
    [][memory_id_cache' # memory_id_cache
       => /\ opc = "get_memory_id"
          /\ memory_id_cache \in {None, ""}
          /\ memory_id_cache' \in {SsmMemoryId, env_MEMORY_ID}
          /\ memory_id_cache' \notin {None, ""}
          /\ "memory_id" \notin DOMAIN payload
          /\ outcome'.kind # "raised"]_vars

C27_Witness ==
    /\ opc = "memory_bind"
    /\ "memory_id" \notin DOMAIN payload
    /\ Made(olog, Call("getenv", TRUE, <<>>))
    /\ memory_id_cache = env_MEMORY_ID

-----------------------------------------------------------------------------
(* Properties of the inbound handler, checked under Spec *)

PayloadBuilt == hpc \in {"invoke_runtime", "await_runtime"}

\* the directory users whose phone_number attribute is the sender's number
\* (with its leading '+')
UsersOf(sender_phone) ==
    {i \in 1..Len(Directory) :
        /\ "phone_number" \in DOMAIN Directory[i]
        /\ Directory[i]["phone_number"] = WithPlus(sender_phone)}

\* C6: get_user_persona_by_phone returns 'student' when the directory call
\* failed, when no directory user has the phone number and when the user
\* that has it has no persona attribute; the lookup never ends the handler:
\* right after it the handler stands before the orchestrator invocation.
C6_PersonaDefaultsToStudent ==
    (Len(hlog) > 0 /\ Last(hlog).call = "list_users")
    => /\ hpc = "invoke_runtime"
       /\ hresult = 0
       /\ (\/ ~Last(hlog).ok
           \/ UsersOf(record.from) = {}
           \/ \A i \in UsersOf(record.from) : "persona" \notin DOMAIN Directory[i])
          => user_persona = "student"

C6_Witness ==
    /\ hpc = "invoke_runtime"
    /\ Last(hlog) = Call("list_users", TRUE, record.from)
    /\ UsersOf(record.from) = {}
    /\ user_persona = "student"

\* C7: the persona in the payload sent to the orchestrator is one of
\* student, teacher, administrator.
C7_PersonaSentIsOneOfThree ==
    PayloadBuilt => hpayload["persona"] \in {"student", "teacher", "administrator"}

\* C8: a resolved persona 'professor' is sent to the orchestrator as
\* 'teacher'; any other resolved persona is sent as it is.
C8_ProfessorBecomesTeacher ==
    PayloadBuilt
    => /\ user_persona = "professor" => hpayload["persona"] = "teacher"
       /\ user_persona # "professor" => hpayload["persona"] = user_persona
       /\ hpc = "await_runtime" => payload["persona"] = hpayload["persona"]

C8_Witness ==
    /\ hpc = "await_runtime"
    /\ user_persona = "professor"
    /\ payload["persona"] = "teacher"

\* the minimum length of a session id ("Session ID precisa ter no minimo 33
\* caracteres")
MinSessionIdLength == 33

\* C11: the session id of every message for which the payload has been built
\* has at least 33 characters.
C11_SessionIdMeetsMinimum ==
    PayloadBuilt => Len(hsession_id) >= MinSessionIdLength

\* C12: for a record without changes, with a status update or without
\* messages the handler has made no call at all (no read receipt, no
\* directory lookup, no orchestrator invocation), the orchestrator is idle,
\* the invocations of the event are those of earlier records, and the handler
\* stands at the head of the loop, or has returned 200 after the last record.
C12_SkippedRecordCallsNothing ==
    record.kind \in {"nochanges", "status", "nomessages"}
    => /\ hlog = <<>>
       /\ opc = "idle"
       /\ ninvoked < idx
       /\ \/ hpc = "next_record" /\ hresult = 0
          \/ hpc = "done" /\ hresult = 200 /\ idx = nrecords

C12_Witness ==
    /\ record.kind = "status"
    /\ hpc = "next_record"
    /\ idx < nrecords
    /\ hlog = <<>>

\* C13: right after the read receipt, failed or not, the handler stands
\* before the persona lookup with no result set; a result of 500 for a
\* message comes from the orchestrator invocation, never from the receipt.
C13_ReceiptFailureDoesNotAbort ==
    \A i \in 1..Len(hlog) :
        hlog[i].call = "markAsRead"
        => /\ i = Len(hlog) => (hpc = "resolve_persona" /\ hresult = 0)
           /\ hresult = 500 => Last(hlog).call = "invoke_agent_runtime"
           /\ hpc = "done" => Last(hlog).call = "invoke_agent_runtime"

C13_Witness ==
    /\ hpc = "done"
    /\ hresult = 200
    /\ Len(hlog) = 3
    /\ hlog[1].call = "markAsRead"
    /\ ~hlog[1].ok
    /\ Last(hlog).call = "invoke_agent_runtime"
    /\ Last(hlog).ok

\* C14: for a message past the receipt step the log of the record holds
\* exactly one markAsRead call, and it is the first call: the directory
\* lookup and the orchestrator invocation come after it, and the orchestrator
\* works only once it was issued.
C14_ReceiptOnceBeforeLookupAndInvocation ==
    /\ (record.kind = "message" /\ hpc # "mark_as_read")
       => /\ Count(hlog, "markAsRead") = 1
          /\ hlog[1].call = "markAsRead"
          /\ hlog[1].arg = <<record.id>>
    /\ \A i \in 1..Len(hlog) :
         hlog[i].call \in {"list_users", "invoke_agent_runtime"}
         => (i > 1 /\ hlog[1].call = "markAsRead")
    /\ opc # "idle" => Count(hlog, "markAsRead") = 1

C14_Witness ==
    /\ hpc = "await_runtime"
    /\ opc = "in_model_all"
    /\ Len(hlog) = 3
    /\ hlog[1].call = "markAsRead"
    /\ hlog[2].call = "list_users"
    /\ hlog[3].call = "invoke_agent_runtime"

\* C15: when the orchestrator has returned a response for a text message,
\* it was invoked with the persona resolved for the sender and the request
\* made a successful outbound send call to the sender's phone number.
C15_ResponseDeliveredToSender ==
    (/\ hpc = "await_runtime"
     /\ opc = "done"
     /\ outcome.kind = "returned"
     /\ record.type = "text")
    => /\ payload["persona"] = RemapPersona(user_persona)
       /\ \E i \in 1..Len(olog) :
            /\ olog[i].call = SendTool
            /\ olog[i].ok
            /\ olog[i].arg = record.from

\* C18: the orchestrator works only while the handler waits for it; a record
\* makes at most one invocation, so the invocations of the event are at most
\* the records taken; the record index moves one forward at a time, from the
\* head of the loop with the orchestrator idle; and the handler leaves the
\* wait only when the entrypoint has ended.
C18_RecordsOneAtATime ==
    /\ [](/\ opc # "idle" => hpc = "await_runtime"
          /\ Count(hlog, "invoke_agent_runtime") <= 1
          /\ ninvoked <= idx
          /\ idx <= nrecords)
    /\ [][/\ idx' # idx
             => \/ idx' = 0 /\ hpc \in {"idle", "done"}
                \/ idx' = idx + 1 /\ hpc = "next_record" /\ opc = "idle"
          /\ (hpc = "await_runtime" /\ hpc' # "await_runtime")
             => opc = "done"
          /\ ninvoked' \in {0, ninvoked, ninvoked + 1}]_vars

C18_Witness ==
    /\ idx = 2
    /\ ninvoked = 2
    /\ hpc = "await_runtime"
    /\ opc = "in_model_base"

-----------------------------------------------------------------------------
(* The session id of two or more inbound events side by side *)

\* lines 207-221 for an inbound message from sender_phone at the current time
DeriveSession ==
    /\ Len(obs) < MaxObserved
    /\ \E sender_phone \in Phones :
         obs' = Append(obs, [phone |-> sender_phone, at |-> now,
                             session_id |-> SessionId(sender_phone, now)])
    /\ UNCHANGED <<ovars, hvars, now, tvars, svars>>

NextSession ==
    \/ DeriveSession
    \/ Tick

SpecSession == Init /\ [][NextSession]_vars

\* C10: two inbound events from the same sender phone string in the same UTC
\* hour get the same session id, and an event from the same phone in the
\* next UTC hour gets a different one.
C10_SessionIdByPhoneAndHour ==
    \A i, j \in 1..Len(obs) :
        obs[i].phone = obs[j].phone
        => /\ HourBucket(obs[i].at) = HourBucket(obs[j].at)
                => obs[i].session_id = obs[j].session_id
           /\ HourBucket(obs[j].at) = HourBucket(obs[i].at) + 1
                => obs[i].session_id # obs[j].session_id

C10_Witness ==
    /\ Len(obs) = 2
    /\ obs[1].phone = obs[2].phone
    /\ obs[1].at # obs[2].at
    /\ HourBucket(obs[1].at) = HourBucket(obs[2].at)
    /\ obs[1].session_id = obs[2].session_id

\* C23: two inbound events of the same UTC hour whose sender phone strings
\* are equal once '+', '-' and spaces are removed (the same user_id) get the
\* same session id.
C23_SameUserSameSession ==
    \A i, j \in 1..Len(obs) :
        (/\ CleanPhone(obs[i].phone) = CleanPhone(obs[j].phone)
         /\ HourBucket(obs[i].at) = HourBucket(obs[j].at))
        => obs[i].session_id = obs[j].session_id

\* C28: two inbound events whose sender phones differ after normalisation
\* get different session ids, in the same hour or not.
C28_DifferentUsersDifferentSessions ==
    \A i, j \in 1..Len(obs) :
        CleanPhone(obs[i].phone) # CleanPhone(obs[j].phone)
        => obs[i].session_id # obs[j].session_id

C28_Witness ==
    /\ Len(obs) = 2
    /\ CleanPhone(obs[1].phone) # CleanPhone(obs[2].phone)
    /\ obs[1].at = obs[2].at
    /\ obs[1].session_id # obs[2].session_id

-----------------------------------------------------------------------------
(* The domain tools: virtual_secretary_agent.py, teacher_assistant_agent.py,
   educational_assistant_agent.py, financial_assistant_agent.py,
   general_questions_agent.py *)

DomainTools == {"answer_student_questions", "answer_teacher_questions",
                "answer_payment_questions", "answer_admin_questions",
                "answer_general_questions"}

\* the persona arguments a model may pass to a tool
ToolPersonas == {"student", "teacher", "administrator", "professor",
                 "Administrator", "coordinator", ""}

\* the tools that take a student_id or teacher_id argument
ToolsWithId == {"answer_student_questions", "answer_teacher_questions",
                "answer_payment_questions"}

\* the mock data generator each tool calls, if any
GeneratorOf(t) ==
    CASE t = "answer_student_questions" -> "generate_student_data"
      [] t = "answer_teacher_questions" -> "generate_teacher_data"
      [] t = "answer_payment_questions" -> "generate_payment_data"
      [] t = "answer_admin_questions" -> "generate_admin_data"
      [] OTHER -> ""

\* a variant in which the student tool accepts every persona but teacher's
Denies_StudentToolOpen(t, persona) ==
    CASE t = "answer_admin_questions" -> persona # "administrator"
      [] t = "answer_teacher_questions" ->
            persona \notin {"teacher", "administrator"}
      [] t = "answer_student_questions" -> persona = "teacher"
      [] OTHER -> FALSE

\* the persona check at the head of each tool
Denies(t, persona) ==
    CASE t = "answer_admin_questions" -> persona # "administrator"
      [] t = "answer_teacher_questions" ->
            persona \notin {"teacher", "administrator"}
      [] t = "answer_student_questions" ->
            persona \notin {"student", "administrator"}
      [] OTHER -> FALSE

\* the text a tool returns when it denies the call, as its parts
DenialText(t, persona) ==
    <<"Access denied",
      CASE t = "answer_admin_questions" ->
             "This tool is only available for administrator personas."
        [] t = "answer_teacher_questions" ->
             "This tool is only available for teacher and administrator personas."
        [] OTHER ->
             "This tool is only available for student and administrator personas.",
      "Current persona: " \o persona>>

\* the tools whose body starts with a persona check
CheckedTools == {"answer_admin_questions", "answer_teacher_questions",
                 "answer_student_questions"}

\* a variant in which the persona is checked after the mock data was built
NextStepOf_CheckAfterData(t, pc) ==
    CASE pc = "call" -> IF GeneratorOf(t) # "" THEN "generate" ELSE "agent"
      [] pc = "generate" -> IF t \in CheckedTools THEN "check_persona"
                            ELSE "agent"
      [] pc = "check_persona" -> "agent"
      [] OTHER -> "done"

\* the order of the statements of a tool body: the persona check (if the tool
\* has one), the mock data generator (if it has one), the sub-agent
NextStepOf(t, pc) ==
    CASE pc = "call" -> IF t \in CheckedTools THEN "check_persona"
                        ELSE IF GeneratorOf(t) # "" THEN "generate"
                        ELSE "agent"
      [] pc = "check_persona" -> IF GeneratorOf(t) # "" THEN "generate"
                                 ELSE "agent"
      [] pc = "generate" -> "agent"
      [] OTHER -> "done"

\* a tool is called with a persona (and an id, for the tools that take one)
CallTool ==
    /\ tpc = "idle"
    /\ \E t \in DomainTools, persona \in ToolPersonas, id \in {None, "STU-001"} :
         /\ id # None => t \in ToolsWithId
         /\ tool' = t
         /\ tpersona' = persona
         /\ targ' = id
         /\ tpc' = NextStepOf(t, "call")
    /\ tret' = NoOutcome
    /\ tlog' = <<>>
    /\ tdata' = <<>>
    /\ UNCHANGED <<ovars, hvars, now, obs, svars>>

\* the persona check at the head of the tool: a denial is returned as a text
CheckPersona ==
    /\ tpc = "check_persona"
    /\ IF Denies(tool, tpersona)
       THEN tpc' = "done" /\ tret' = Returned(DenialText(tool, tpersona))
       ELSE tpc' = NextStepOf(tool, "check_persona") /\ tret' = tret
    /\ UNCHANGED <<tool, tpersona, targ, tlog, tdata, ovars, hvars, now, obs,
                   svars>>

\* the monthly tuition of the mock payment records
MonthlyTuition == 600

\* generate_payment_data draws the number of unpaid months below this
UnpaidDraws == 4

\* generate_admin_data builds at least this many delinquent-student records
MinDelinquent == 3

\* the labels of the unpaid months, the latest first (strftime("%B %Y"))
MonthLabels == <<"month-1", "month-2", "month-3", "month-4", "month-5">>

\* generate_payment_data, for a drawn number of unpaid months
generate_payment_data(student_id, num_unpaid) ==
    LET status == IF num_unpaid > 0 THEN "overdue" ELSE "paid"
    IN  [student_id |-> IF student_id = None THEN "STU-rand" ELSE student_id,
         unpaid_months |-> SubSeq(MonthLabels, 1, num_unpaid),
         amount_due |-> IF num_unpaid > 0 THEN num_unpaid * MonthlyTuition
                        ELSE 0,
         status |-> status,
         receipt_id |-> IF status = "paid" THEN "REC-rand" ELSE None]

\* generate_admin_data, lines 252-256: a drawn record without unpaid months
\* is turned into an overdue one
EnsureDelinquent(payment_info) ==
    IF payment_info.unpaid_months = <<>>
    THEN [payment_info EXCEPT !.unpaid_months = <<"November 2025">>,
                              !.amount_due = MonthlyTuition,
                              !.status = "overdue"]
    ELSE payment_info

\* the delinquent_students of generate_admin_data, for the drawn numbers
DelinquentStudents(draws) ==
    [i \in 1..Len(draws) |->
        EnsureDelinquent(generate_payment_data(None, draws[i]))]

\* the sequences of n drawn numbers of unpaid months
Draws(n) == [1..n -> 0..(UnpaidDraws - 1)]

\* the PaymentInfo records a generator can build
Generated(t, id) ==
    CASE t = "answer_payment_questions" ->
            {<<generate_payment_data(id, n)>> : n \in 0..(UnpaidDraws - 1)}
      [] t = "answer_admin_questions" ->
            UNION {{DelinquentStudents(d) : d \in Draws(n)} :
                      n \in MinDelinquent..MaxDelinquent}
      [] OTHER -> {<<>>}

\* the mock record of the tool is generated
GenerateData ==
    /\ tpc = "generate"
    /\ tlog' = tlog \o <<Call(GeneratorOf(tool), TRUE, <<>>)>>
    /\ \E data \in Generated(tool, targ) : tdata' = data
    /\ tpc' = NextStepOf(tool, "generate")
    /\ UNCHANGED <<tool, tpersona, targ, tret, ovars, hvars, now, obs, svars>>

\* the sub-agent is created and invoked; its answer is returned as a string,
\* its error leaves the tool
SubAgent ==
    /\ tpc = "agent"
    /\ \E ok \in BOOLEAN :
         /\ tlog' = tlog \o <<Call("Agent", ok, <<>>)>>
         /\ tret' = IF ok THEN Returned(<<"response">>) ELSE Raised("model")
    /\ tpc' = "done"
    /\ UNCHANGED <<tool, tpersona, targ, tdata, ovars, hvars, now, obs, svars>>

\* the result goes back to the model that called the tool
ToolReturn ==
    /\ tpc = "done"
    /\ tpc' = "idle"
    /\ tool' = ""
    /\ tpersona' = ""
    /\ targ' = None
    /\ tret' = NoOutcome
    /\ tlog' = <<>>
    /\ tdata' = <<>>
    /\ UNCHANGED <<ovars, hvars, now, obs, svars>>

NextTools ==
    \/ CallTool
    \/ CheckPersona
    \/ GenerateData
    \/ SubAgent
    \/ ToolReturn

SpecTools == Init /\ [][NextTools]_vars

\* the personas each persona-scoped tool is meant to serve
AllowList(t) ==
    CASE t = "answer_admin_questions" -> {"administrator"}
      [] t = "answer_teacher_questions" -> {"teacher", "administrator"}
      [] t = "answer_student_questions" -> {"student", "administrator"}

IsDenial(r) == r.kind = "returned" /\ r.result[1] = "Access denied"

C25_DeniedCallTouchesNothing ==
    /\ (tool \in CheckedTools /\ tpersona \notin AllowList(tool))
       => (tlog = <<>> /\ tdata = <<>>)
    /\ IsDenial(tret) => (tpc = "done" /\ tlog = <<>> /\ tdata = <<>>)

C25_Witness ==
    /\ tpc = "done"
    /\ tool = "answer_teacher_questions"
    /\ tpersona = "student"
    /\ IsDenial(tret)
    /\ tlog = <<>>

\* the PaymentInfo invariants
PaymentInfoOk(p) ==
    /\ p.status = "overdue" <=> p.unpaid_months # <<>>
    /\ p.amount_due = MonthlyTuition * Len(p.unpaid_months)
    /\ p.receipt_id # None <=> p.status = "paid"

\* C30: every PaymentInfo record a generator has built is overdue exactly
\* when it has unpaid months, is due 600 per unpaid month, and has a receipt
\* id exactly when it is paid.
C30_PaymentInfoConsistent ==
    \A i \in 1..Len(tdata) : PaymentInfoOk(tdata[i])

-----------------------------------------------------------------------------
(* The outbound send handler: src/lambda_function.py *)

\* the events of the handler: a dict or its JSON text, with or without each
\* of the two keys, or a text that is no JSON
SendBodies ==
    {[k \in ks |-> IF k = "phone_number" THEN ph ELSE msg] :
        ks \in SUBSET {"phone_number", "message"},
        ph \in {<<>>, <<"5", "5", "1", "1">>, <<"+", "5", "5", " ", "1", "1">>},
        msg \in {"", "oi"}}

\* context.client_context: absent, with a custom dict, or with custom = None
SendEvents ==
    {[form |-> f, body |-> b, client_context |-> c] :
        f \in {"dict", "json"}, b \in SendBodies,
        c \in {"none", "custom", "no_custom"}}
    \cup {[form |-> "text", body |-> <<>>, client_context |-> c] :
            c \in {"none", "custom"}}

\* what the transport client can raise from send_whatsapp_message: a
\* ClientError with the provider's Error entry, a ClientError without it,
\* an exception that is no ClientError
SendErrors ==
    {[type |-> "ClientError", code |-> "ThrottlingException",
      message |-> "Rate exceeded"],
     [type |-> "ClientError", code |-> None, message |-> None],
     [type |-> "Exception", code |-> None, message |-> "Read timeout"]}

NoError == [type |-> "", code |-> None, message |-> None]

\* the messageId of the transport's response; None when it carries none
ProviderIds == {"wamid-1", None}

\* a send_whatsapp_message call: its destination, the error it raised or the
\* messageId of its response
SendCall(ok, to, err, id) ==
    [call |-> "send_whatsapp_message", ok |-> ok, to |-> to, err |-> err,
     id |-> id]

\* lines 32-38 and 85-102: a result with success False and an error text
SendReturned(status, error) ==
    [kind |-> "returned", statusCode |-> status, error |-> error,
     message_id |-> "", recipient |-> <<>>]

\* lines 65-77: the result of a send, response.get('messageId', '')
SendSucceeded(id, to) ==
    [kind |-> "returned", statusCode |-> 200, error |-> "",
     message_id |-> IF id = None THEN "" ELSE id, recipient |-> to]

SendRaised(error) ==
    [kind |-> "raised", statusCode |-> 0, error |-> error,
     message_id |-> "", recipient |-> <<>>]

\* `not event.get(key)` for the two keys of the event
SendFalsy(b, k) ==
    \/ k \notin DOMAIN b
    \/ (IF k = "phone_number" THEN b[k] = <<>> ELSE b[k] = "")

\* a variant that leaves the number as it came
SendDestination_Raw(phone_number) == <<"+">> \o phone_number

\* lines 41, 49 and 74: the destination, f"+{clean_phone}"
SendDestination(phone_number) == <<"+">> \o CleanPhone(phone_number)

\* lines 79-102: the body's error text for an exception of the try block
SendErrorText(err) ==
    IF err.type = "ClientError"
    THEN (IF err.code = None THEN "Unknown" ELSE err.code) \o ": "
            \o (IF err.message = None THEN "str(e)" ELSE err.message)
    ELSE err.message

\* lines 13-21: the handler is entered; custom.get(...) stands before the try
SendHandler ==
    /\ spc \in {"idle", "done"}
    /\ \E e \in SendEvents :
         /\ sevent' = e
         /\ IF e.client_context = "no_custom"
            THEN spc' = "done" /\ sresult' = SendRaised("AttributeError")
            ELSE spc' = "parse" /\ sresult' = NoSendResult
    /\ slog' = <<>>
    /\ UNCHANGED <<ovars, hvars, now, obs, tvars>>

\* lines 24-38: the event is parsed and its two fields are required
SendValidate ==
    /\ spc = "parse"
    /\ spc' = IF sevent.form # "text"
                 /\ ~SendFalsy(sevent.body, "phone_number")
                 /\ ~SendFalsy(sevent.body, "message")
              THEN "send" ELSE "done"
    /\ sresult' =
         IF sevent.form = "text" THEN SendReturned(500, "JSONDecodeError")
         ELSE IF SendFalsy(sevent.body, "phone_number")
                 \/ SendFalsy(sevent.body, "message")
         THEN SendReturned(400, "phone_number e message sao obrigatorios")
         ELSE sresult
    /\ UNCHANGED <<sevent, slog, ovars, hvars, now, obs, tvars>>

\* a variant that sends again after an error of the transport
AfterSendFailure_Retry == "send"

\* where control goes when send_whatsapp_message raises: to one of the two
\* except clauses (lines 79 and 93), which return
AfterSendFailure == "done"

\* lines 40-102: the transport client is created and the message is sent once
SendMessage ==
    /\ spc = "send"
    /\ \/ /\ slog' = slog
          /\ spc' = "done"
          /\ sresult' = SendReturned(500, "boto3.client")
       \/ \E id \in ProviderIds :
            LET to == SendDestination(sevent.body["phone_number"])
            IN  /\ slog' = slog \o <<SendCall(TRUE, to, NoError, id)>>
                /\ spc' = "done"
                /\ sresult' = SendSucceeded(id, to)
       \/ \E err \in SendErrors :
            /\ slog' = slog \o <<SendCall(FALSE,
                          SendDestination(sevent.body["phone_number"]), err,
                          None)>>
            /\ spc' = AfterSendFailure
            /\ sresult' = IF AfterSendFailure = "done"
                          THEN SendReturned(500, SendErrorText(err))
                          ELSE sresult
    /\ UNCHANGED <<sevent, ovars, hvars, now, obs, tvars>>

NextSend ==
    \/ SendHandler
    \/ SendValidate
    \/ SendMessage

SpecSend == Init /\ [][NextSend]_vars

\* C19: one invocation of the send handler makes at most one
\* send_whatsapp_message call; when that call raised, the invocation has
\* returned (not raised) a result with statusCode 500 whose error text is
\* the provider's code and message when the error carries them
\* ("ThrottlingException: Rate exceeded"), and the exception's text
\* otherwise; the failed call is the last call of the invocation.
C19_SendFailureReturnedNotRetried ==
    /\ Len(slog) <= 1
    /\ \A i \in 1..Len(slog) :
         ~slog[i].ok
         => /\ i = Len(slog)
            /\ spc = "done"
            /\ sresult.kind = "returned"
            /\ sresult.statusCode = 500
            /\ sresult.error = SendErrorText(slog[i].err)
            /\ (slog[i].err.type = "ClientError" /\ slog[i].err.code # None)
               => sresult.error = slog[i].err.code \o ": " \o slog[i].err.message

C19_Witness ==
    /\ spc = "done"
    /\ Len(slog) = 1
    /\ ~slog[1].ok
    /\ slog[1].err.type = "ClientError"
    /\ sresult = SendReturned(500, "ThrottlingException: Rate exceeded")

\* the event reached lines 28-29 as a dictionary: it came as one or as the
\* JSON text of one, and the client context did not stop the handler
SendDecoded == /\ sevent.form \in {"dict", "json"}
               /\ sevent.client_context # "no_custom"

=============================================================================
